---- MODULE Spec2Model ----
(***************************************************************************)
(* Model of the cloud-convert crate (rust/cloud-convert):                  *)
(*   - rast_qaqc.rs    : compute_stats_generic, percentile, compute_stats, *)
(*                       compute_all_bands, batch_qaqc                     *)
(*   - batch_convert.rs: batch_convert, batch_convert_cog/gpq              *)
(*   - vect2gpq.rs / tif2cog.rs : the two converters                       *)
(*                                                                         *)
(* Numbers.  A raster sample of element type T is either non-finite or a   *)
(* finite value v * 2^(-exp), where exp is the band's grid exponent and v  *)
(* an integer.  Scaling by a power of two does not change a float's        *)
(* mantissa, so f32 rounding is rounding of v to 24 significant bits.      *)
(* f64 values stay exact: every integer the model forms is below 2^53.     *)
(* The f64 results of the final calculations are kept as exact reduced     *)
(* fractions (the 2^-53 relative rounding of an f64 quotient is below the  *)
(* model's resolution).  mean, min, max, stdev and the quartiles are in    *)
(* grid units 2^(-exp), variance in units 2^(-2*exp).                      *)
(***************************************************************************)
EXTENDS Integers, Sequences, FiniteSets, TLC

VARIABLES
    \* ---- compute_stats_generic (one band) ----
    band,          \* the band being reduced (descriptor + pixel data)
    quantiles,     \* the `quantiles` argument
    st_pc,         \* position inside compute_stats_generic
    acc,           \* the accumulators of lines 112-121
    valid_values,  \* Vec<T> of line 150
    quart,         \* q1 / median / q3 of lines 117-119
    cur,           \* loop cursor: row of line 185, (x, y) of lines 191-192
    reads,         \* windows requested from the band so far, in order
    stats,         \* the returned Result<RasterStats>
    \* ---- batch_convert ----
    bc_args,       \* converter, input path kind, directory entries, output_dir
    bc_pc,         \* position inside batch_convert
    bc_out_exists, \* whether the output directory exists on disk
    bc_files,      \* Vec<PathBuf> of line 38
    bc_task,       \* per file: state of its parallel task, converter calls
    bc_ret,        \* the returned Result<BatchSummary, String>
    \* ---- batch_qaqc ----
    qq_args,       \* directory content, pct_check, quantiles, output_format
    qq_pc,         \* position inside batch_qaqc
    qq_sample,     \* sample_files of line 378 (indices into the directory)
    qq_task,       \* per sampled file: state of its parallel task and its result
    qq_counter,    \* the AtomicUsize progress counter
    qq_result,     \* the concatenated table of line 401
    qq_out,        \* the output file: times created, name, encoding, rows
    qq_ret,        \* the returned Result<()>
    \* ---- the sampling arithmetic of batch_qaqc on larger directories ----
    pl_args,       \* pct_check and the number of matching files
    pl_pc,
    pl_sample,     \* the working set
    \* ---- tif_to_cog (one conversion) ----
    cog_args,      \* input_path, output_path, overwrite
    cog_fs,        \* the paths that exist on disk
    cog_pc,        \* position inside tif_to_cog
    cog_checked,   \* the paths whose existence was tested for the overwrite guard
    cog_out_path,  \* out_path of line 16
    cog_wrote,     \* the path create_copy wrote, and whether it existed before
    cog_ret        \* the returned Result<(), String>

statsVars == <<band, quantiles, st_pc, acc, valid_values, quart, cur, reads, stats>>

bcVars == <<bc_args, bc_pc, bc_out_exists, bc_files, bc_task, bc_ret>>

qqVars == <<qq_args, qq_pc, qq_sample, qq_task, qq_counter, qq_result, qq_out, qq_ret>>

plVars == <<pl_args, pl_pc, pl_sample>>

cogVars == <<cog_args, cog_fs, cog_pc, cog_checked, cog_out_path, cog_wrote, cog_ret>>

vars == <<band, quantiles, st_pc, acc, valid_values, quart, cur, reads, stats,
          bc_args, bc_pc, bc_out_exists, bc_files, bc_task, bc_ret,
          qq_args, qq_pc, qq_sample, qq_task, qq_counter, qq_result, qq_out, qq_ret,
          pl_args, pl_pc, pl_sample,
          cog_args, cog_fs, cog_pc, cog_checked, cog_out_path, cog_wrote, cog_ret>>

----------------------------------------------------------------------------
(* Bounds of the model *)

MaxRichCells == 4      \* cells of a band whose samples range over a whole palette
MaxCols == 3           \* columns of a band of the shape family
MaxRows == 3           \* rows of a band of the shape family
MaxBlock == 2          \* block width / height of a band of the shape family
MaxEntries == 3        \* entries of the directory given to batch_convert
MaxFiles == 3          \* files below the directory given to batch_qaqc
MaxTotal == 30         \* matching files in the sampling arithmetic
MaxShuffle == 3        \* largest list of which every shuffle outcome is followed
MaxExisting == 3       \* files on disk when tif_to_cog is called

----------------------------------------------------------------------------
(* Floating point *)

F32Bits == 24          \* significand width of f32
F32UnderflowExp == 181 \* |v| < 2^31 and exp >= 181: v * 2^-exp < 2^-150, f32 gives 0
EpsMicro == 1000000    \* 1 / epsilon, epsilon = 1e-6

RECURSIVE Pow2(_)
Pow2(k) == IF k = 0 THEN 1 ELSE 2 * Pow2(k - 1)

Abs(n) == IF n < 0 THEN -n ELSE n

RECURSIVE Gcd(_, _)
Gcd(a, b) == IF b = 0 THEN a ELSE Gcd(b, a % b)

\* number of low bits that do not fit a p-bit significand
RECURSIVE DropBits(_, _)
DropBits(m, p) == IF p >= 31 \/ m < Pow2(p) THEN 0 ELSE 1 + DropBits(m \div 2, p)

\* round-to-nearest, ties-to-even, to p significant bits
RoundBits(n, p) ==
    LET m == Abs(n)
        k == DropBits(m, p)
        q == m \div Pow2(k)
        r == m % Pow2(k)
        half == IF k = 0 THEN 0 ELSE Pow2(k - 1)
        up == k > 0 /\ (r > half \/ (r = half /\ q % 2 = 1))
        mag == (IF up THEN q + 1 ELSE q) * Pow2(k)
    IN  IF n < 0 THEN -mag ELSE mag

\* rounding of an exact result to the element type T
RoundT(T, n) == IF T = "f32" THEN RoundBits(n, F32Bits) ELSE n

\* samples
Num(v) == [k |-> "num", v |-> v]
NaN == [k |-> "nan", v |-> 0]
Inf == [k |-> "inf", v |-> 0]
is_finite(s) == s.k = "num"

\* Option
None == [some |-> FALSE, val |-> NaN]
Some(s) == [some |-> TRUE, val |-> s]

\* T::from_f64 (num_traits): `as` cast, rounds to T
FromF64(T, s) == IF s.k = "num" THEN Num(RoundT(T, s.v)) ELSE s

\* ToPrimitive::to_f32 of a finite T value on the grid 2^-exp
ToF32(v, exp) == IF exp >= F32UnderflowExp THEN 0 ELSE RoundBits(v, F32Bits)

\* (val - nodata_val).abs() < epsilon, on the grid 2^-exp
AbsDiffLtEps(T, val, nd, exp) ==
    /\ nd.k = "num"
    /\ LET d == Abs(RoundT(T, val.v - nd.v))
       IN  IF exp > 30 THEN TRUE ELSE d <= (Pow2(exp) - 1) \div EpsMicro

\* f64 results: exact fractions and the special values
Frac(n, d) ==
    LET g == Gcd(Abs(n), d)
    IN  [k |-> "num", n |-> n \div g, d |-> d \div g]
NaNF == [k |-> "nan", n |-> 0, d |-> 1]
TMaxValue == [k |-> "max", n |-> 0, d |-> 1]     \* T::max_value()
TMinValue == [k |-> "lowest", n |-> 0, d |-> 1]  \* T::min_value()
Zero == Frac(0, 1)

Lcm(a, b) == (a \div Gcd(a, b)) * b
FracSub(a, b) ==
    LET l == Lcm(a.d, b.d)
    IN  Frac(a.n * (l \div a.d) - b.n * (l \div b.d), l)
FracMul(a, b) == Frac(a.n * b.n, a.d * b.d)
FracDiv(a, b) ==
    IF b.n < 0 THEN Frac(-(a.n * b.d), a.d * (-b.n)) ELSE Frac(a.n * b.d, a.d * b.n)
FracLt(a, b) == a.n * b.d < b.n * a.d

\* integer square root (floor), one bit at a time from 2^15 down
RECURSIVE ISqrtBits(_, _, _)
ISqrtBits(n, r, bit) ==
    IF bit = 0 THEN r
    ELSE IF (r + bit) * (r + bit) <= n THEN ISqrtBits(n, r + bit, bit \div 2)
    ELSE ISqrtBits(n, r, bit \div 2)
ISqrt(n) == ISqrtBits(n, 0, 32768)
IsSquare(n) == ISqrt(n) * ISqrt(n) = n

\* f64::sqrt of a non-negative fraction; irrational roots stay symbolic
FSqrt(a) ==
    IF a.k # "num" THEN NaNF
    ELSE IF IsSquare(a.n) /\ IsSquare(a.d)
         THEN Frac(ISqrt(a.n), ISqrt(a.d))
         ELSE [k |-> "sqrt", n |-> a.n, d |-> a.d]

----------------------------------------------------------------------------
(* Band Reader: read_band_as and read_as of the gdal crate *)

Cells(b) == b.cols * b.rows

\* the window (x, y, w, h) lies inside the band and holds no corrupt cell
WindowReadable(b, x, y, w, h) ==
    /\ w >= 1 /\ h >= 1 /\ x + w <= b.cols /\ y + h <= b.rows
    /\ \A j \in 0 .. h - 1 : \A i \in 0 .. w - 1 : b.corrupt # (y + j) * b.cols + x + i + 1

\* band.read_as((x, y), (w, h), (w, h), None): the window's samples, row-major
ReadAs(b, x, y, w, h) ==
    [n \in 1 .. w * h |->
        b.data[(y + ((n - 1) \div w)) * b.cols + x + ((n - 1) % w) + 1]]

\* band.read_band_as(): the whole band
ReadBandAs(b) == ReadAs(b, 0, 0, b.cols, b.rows)

ElemT(b) == IF b.dtype = "Float64" THEN "f64" ELSE "f32"

----------------------------------------------------------------------------
(* Statistics Accumulator: compute_stats_generic *)

\* accumulators of type T: min starts at T::max_value(), max at T::min_value()
TMax == [k |-> "max", v |-> 0]
TMin == [k |-> "lowest", v |-> 0]

InitAcc ==
    [valid_count |-> 0, nodata_count |-> 0, nan_count |-> 0,
     sum |-> 0, sum_sq |-> 0, min |-> TMax, max |-> TMin]

\* Float::min / Float::max against a finite sample
FloatMin(m, val) == IF m.k = "max" THEN val ELSE IF val.v < m.v THEN val ELSE m
FloatMax(m, val) == IF m.k = "lowest" THEN val ELSE IF val.v > m.v THEN val ELSE m

\* sum += val; sum_sq += val * val; min = min.min(val); max = max.max(val)
Accumulate(T, a, val) ==
    [a EXCEPT !.sum = RoundT(T, @ + val.v),
              !.sum_sq = RoundT(T, @ + RoundT(T, val.v * val.v)),
              !.min = FloatMin(@, val),
              !.max = FloatMax(@, val)]

\* variant: the nodata test as an exact comparison, without the epsilon
IsNodata_Exact(T, val, nodata_val, exp) ==
    nodata_val.some /\ val = nodata_val.val

\* the three-way classification of one sample
IsNodata(T, val, nodata_val, exp) ==
    nodata_val.some /\ AbsDiffLtEps(T, val, nodata_val.val, exp)

\* nodata.and_then(T::from_f64)
NodataVal(T, nodata) == IF nodata.some THEN Some(FromF64(T, nodata.val)) ELSE None

\* variant: a non-finite sample is skipped without being counted
process_sample_DropsNonFinite(T, a, val, nodata_val, exp) ==
    IF ~is_finite(val) THEN a
    ELSE IF IsNodata(T, val, nodata_val, exp) THEN [a EXCEPT !.nodata_count = @ + 1]
    ELSE [Accumulate(T, a, val) EXCEPT !.valid_count = @ + 1]

\* body of the closure's loop
process_sample(T, a, val, nodata_val, exp) ==
    IF ~is_finite(val) THEN [a EXCEPT !.nan_count = @ + 1]
    ELSE IF IsNodata(T, val, nodata_val, exp) THEN [a EXCEPT !.nodata_count = @ + 1]
    ELSE [Accumulate(T, a, val) EXCEPT !.valid_count = @ + 1]

\* the closure process_buffer: for &val in data { ... }, from index i
RECURSIVE process_buffer(_, _, _, _, _, _)
process_buffer(T, a, data, nodata_val, exp, i) ==
    IF i > Len(data) THEN a
    ELSE process_buffer(T, process_sample(T, a, data[i], nodata_val, exp),
                        data, nodata_val, exp, i + 1)

\* body of the loop of the quantiles branch; s = [a, vv]
quantile_sample(T, s, val, nodata, exp) ==
    IF ~is_finite(val) THEN [s EXCEPT !.a.nan_count = @ + 1]
    ELSE IF IsNodata(T, val, NodataVal(T, nodata), exp)
         THEN [s EXCEPT !.a.nodata_count = @ + 1]
    ELSE [a |-> Accumulate(T, s.a, val), vv |-> Append(s.vv, val.v)]

RECURSIVE quantile_loop(_, _, _, _, _, _)
quantile_loop(T, s, data, nodata, exp, i) ==
    IF i > Len(data) THEN s
    ELSE quantile_loop(T, quantile_sample(T, s, data[i], nodata, exp),
                       data, nodata, exp, i + 1)

\* sort_unstable_by(partial_cmp): ascending order of finite values
RECURSIVE InsertSorted(_, _)
InsertSorted(s, v) ==
    IF s = <<>> THEN <<v>>
    ELSE IF v <= Head(s) THEN <<v>> \o s
    ELSE <<Head(s)>> \o InsertSorted(Tail(s), v)

RECURSIVE SortAscending(_)
SortAscending(s) ==
    IF s = <<>> THEN <<>> ELSE InsertSorted(SortAscending(Tail(s)), Head(s))

\* ((sorted.len() - 1) as f32 * p).round() as usize, p = p4 / 4
\* (f32::round rounds half away from zero; the product is exact)
PercentileIdx(len, p4) == ((len - 1) * p4 + 2) \div 4

\* percentile(sorted, p): an f32
percentile(sorted, p4, exp) ==
    IF Len(sorted) = 0 THEN NaN
    ELSE LET idx == PercentileIdx(Len(sorted), p4)
         IN  IF idx < Len(sorted) THEN Num(ToF32(sorted[idx + 1], exp)) ELSE NaN

NoQuartiles == [q1 |-> None, median |-> None, q3 |-> None]

\* if !valid_values.is_empty() { sort; q1 = ..; median = ..; q3 = .. }
Quartiles(vv, exp) ==
    IF vv = <<>> THEN NoQuartiles
    ELSE LET sorted == SortAscending(vv)
         IN  [q1 |-> Some(percentile(sorted, 1, exp)),
              median |-> Some(percentile(sorted, 2, exp)),
              q3 |-> Some(percentile(sorted, 3, exp))]

\* T -> f64
ToF64(m) ==
    IF m.k = "max" THEN TMaxValue
    ELSE IF m.k = "lowest" THEN TMinValue
    ELSE Frac(m.v, 1)

\* variant: the division by a zero valid_count is trapped and yields 0
Mean_ZeroWhenEmpty(a) == IF a.valid_count = 0 THEN Zero ELSE Frac(a.sum, a.valid_count)

\* "Final calculations"
Mean(a) == IF a.valid_count = 0 THEN NaNF ELSE Frac(a.sum, a.valid_count)

Variance(a) ==
    IF a.valid_count = 0 THEN NaNF
    ELSE LET m == Mean(a)
             v == FracSub(Frac(a.sum_sq, a.valid_count), FracMul(m, m))
         IN  IF v.n < 0 THEN Zero ELSE v

\* if mean != 0.0 { stdev / mean } else { 0.0 }
Cv(mean, stdev) ==
    IF mean.k = "nan" THEN NaNF
    ELSE IF mean.n # 0
         THEN IF stdev.k = "num" THEN FracDiv(stdev, mean)
              ELSE [k |-> "sqrtdiv", n |-> stdev.n, d |-> stdev.d,
                    mn |-> mean.n, md |-> mean.d]
         ELSE Zero

FinalStats(b, a, q) ==
    LET mean == Mean(a)
        variance == Variance(a)
        stdev == FSqrt(variance)
    IN  [dtype |-> b.dtype,
         mean |-> mean,
         min |-> ToF64(a.min),
         max |-> ToF64(a.max),
         variance |-> variance,
         stdev |-> stdev,
         cv |-> Cv(mean, stdev),
         valid_count |-> a.valid_count,
         nodata_count |-> a.nodata_count,
         nan_count |-> a.nan_count,
         percent_valid |-> Frac(a.valid_count * 100, Cells(b)),
         q1 |-> q.q1, median |-> q.median, q3 |-> q.q3]

\* Result
Ok(v) == [ok |-> TRUE, v |-> v]
Err == [ok |-> FALSE, v |-> <<>>]

\* variant: the block shape is looked at before the quantiles flag
Strategy_BlockShapeFirst(b, q) ==
    IF b.block_y # 1 THEN "blocks" ELSE IF q THEN "full" ELSE "rows"

\* read strategy: `if quantiles` / `else if block_y == 1` / `else`
Strategy(b, q) == IF q THEN "full" ELSE IF b.block_y = 1 THEN "rows" ELSE "blocks"

\* variant: the window's width is not clipped at the band's right edge
WinWidth_Unclipped(b, x) == b.block_x

\* block-wise window at (x, y)
WinWidth(b, x) == IF b.block_x < b.cols - x THEN b.block_x ELSE b.cols - x
WinHeight(b, y) == IF b.block_y < b.rows - y THEN b.block_y ELSE b.rows - y

\* for row in 0..rows { read_as((0, row), (cols, 1)); process_buffer }
RECURSIVE RowLoop(_, _, _)
RowLoop(b, a, row) ==
    IF row >= b.rows THEN Ok(a)
    ELSE IF ~WindowReadable(b, 0, row, b.cols, 1) THEN Err
    ELSE RowLoop(b, process_buffer(ElemT(b), a, ReadAs(b, 0, row, b.cols, 1),
                                   NodataVal(ElemT(b), b.nodata), b.exp, 1),
                 row + 1)

\* for y in (0..rows).step_by(block_y) { for x in (0..cols).step_by(block_x) {..} }
RECURSIVE BlockLoop(_, _, _, _)
BlockLoop(b, a, x, y) ==
    IF y >= b.rows THEN Ok(a)
    ELSE IF x >= b.cols THEN BlockLoop(b, a, 0, y + b.block_y)
    ELSE LET w == WinWidth(b, x)
             h == WinHeight(b, y)
         IN  IF ~WindowReadable(b, x, y, w, h) THEN Err
             ELSE BlockLoop(b, process_buffer(ElemT(b), a, ReadAs(b, x, y, w, h),
                                              NodataVal(ElemT(b), b.nodata), b.exp, 1),
                            x + b.block_x, y)

\* the quantiles branch
FullRead(b) ==
    IF ~WindowReadable(b, 0, 0, b.cols, b.rows) THEN Err
    ELSE LET s == quantile_loop(ElemT(b), [a |-> InitAcc, vv |-> <<>>],
                                ReadBandAs(b), b.nodata, b.exp, 1)
         IN  Ok([a |-> [s.a EXCEPT !.valid_count = Len(s.vv)], vv |-> s.vv])

\* compute_stats_generic::<T>(band, quantiles), as a function of the band
compute_stats_generic(b, q) ==
    IF Strategy(b, q) = "full"
    THEN LET r == FullRead(b)
         IN  IF r.ok THEN Ok(FinalStats(b, r.v.a, Quartiles(r.v.vv, b.exp))) ELSE Err
    ELSE LET r == IF Strategy(b, q) = "rows" THEN RowLoop(b, InitAcc, 0)
                  ELSE BlockLoop(b, InitAcc, 0, 0)
         IN  IF r.ok THEN Ok(FinalStats(b, r.v, NoQuartiles)) ELSE Err

\* compute_stats: Float64 bands as f64, every other type as f32 (ElemT)
compute_stats(b, all_stats) == compute_stats_generic(b, all_stats)

----------------------------------------------------------------------------
(* Bands the model reduces *)

Palettes ==
    { [exp |-> 1, vals |-> {NaN, Num(2), Num(4), Num(18)},
       nodatas |-> {None, Some(Num(18)), Some(NaN)}, dtypes |-> {"Float32", "Float64"}],
      [exp |-> 21, vals |-> {Inf, Num(16), Num(20), Num(21)},
       nodatas |-> {Some(Num(18))}, dtypes |-> {"Float32", "Float64"}],
      [exp |-> 0, vals |-> {Num(2365), Num(-2), Num(2), Num(0)},
       nodatas |-> {None}, dtypes |-> {"Int32", "Float64"}],
      [exp |-> 200, vals |-> {Num(3), Num(5)},
       nodatas |-> {None}, dtypes |-> {"Float64"}] }

\* small bands whose samples range over a whole palette
RichBands ==
    UNION { UNION { { [dtype |-> dt, cols |-> c, rows |-> r,
                       block_x |-> bl[1], block_y |-> bl[2],
                       nodata |-> nd, exp |-> p.exp, data |-> d, corrupt |-> 0] :
                      dt \in p.dtypes, nd \in p.nodatas, bl \in {<<c, 1>>, <<2, 2>>},
                      d \in [1 .. c * r -> p.vals] } :
                    c \in 1 .. (MaxRichCells \div r) } :
            r \in 1 .. MaxRichCells, p \in Palettes }

\* pattern data: one optional non-finite cell, one optional nodata cell
PatternData(n, kNaN, kNd) ==
    [i \in 1 .. n |->
        IF i = kNaN THEN NaN ELSE IF i = kNd THEN Num(18) ELSE Num(2 * (1 + (i % 2)))]

\* bands of every shape and block shape, with pattern data
ShapeBands ==
    UNION { { [dtype |-> "Float32", cols |-> c, rows |-> r,
               block_x |-> bx, block_y |-> by,
               nodata |-> Some(Num(18)), exp |-> 1,
               data |-> PatternData(c * r, kNaN, kNd), corrupt |-> co] :
              bx \in 1 .. MaxBlock, by \in 1 .. MaxBlock,
              kNaN \in 0 .. c * r, kNd \in {0, 1, c * r}, co \in {0, 1, c * r} } :
            c \in 1 .. MaxCols, r \in 1 .. MaxRows }

----------------------------------------------------------------------------
(* compute_stats_generic, window by window *)

StatsInit ==
    /\ band \in RichBands \cup ShapeBands
    /\ quantiles \in BOOLEAN
    /\ st_pc = "start"
    /\ acc = InitAcc
    /\ valid_values = <<>>
    /\ quart = NoQuartiles
    /\ cur = [x |-> 0, y |-> 0]
    /\ reads = <<>>
    /\ stats = Err

Window(x, y, w, h) == [x |-> x, y |-> y, w |-> w, h |-> h]

\* descriptor read, accumulators initialised, strategy chosen
Begin ==
    /\ st_pc = "start"
    /\ st_pc' = Strategy(band, quantiles)
    /\ UNCHANGED <<band, quantiles, acc, valid_values, quart, cur, reads, stats>>

\* if quantiles { read_band_as; classify; sort; percentiles }
ReadFull ==
    /\ st_pc = "full"
    /\ reads' = Append(reads, Window(0, 0, band.cols, band.rows))
    /\ LET r == FullRead(band)
       IN  IF r.ok
           THEN /\ acc' = r.v.a
                /\ valid_values' = SortAscending(r.v.vv)
                /\ quart' = Quartiles(r.v.vv, band.exp)
                /\ st_pc' = "final"
           ELSE /\ st_pc' = "err"
                /\ UNCHANGED <<acc, valid_values, quart>>
    /\ UNCHANGED <<band, quantiles, cur, stats>>

\* one iteration of `for row in 0..rows`
ReadRow ==
    /\ st_pc = "rows"
    /\ reads' = Append(reads, Window(0, cur.y, band.cols, 1))
    /\ IF WindowReadable(band, 0, cur.y, band.cols, 1)
       THEN /\ acc' = process_buffer(ElemT(band), acc, ReadAs(band, 0, cur.y, band.cols, 1),
                                     NodataVal(ElemT(band), band.nodata), band.exp, 1)
            /\ cur' = [cur EXCEPT !.y = @ + 1]
            /\ st_pc' = IF cur.y + 1 >= band.rows THEN "final" ELSE "rows"
       ELSE /\ st_pc' = "err"
            /\ UNCHANGED <<acc, cur>>
    /\ UNCHANGED <<band, quantiles, valid_values, quart, stats>>

\* one iteration of the nested block loops
ReadBlock ==
    /\ st_pc = "blocks"
    /\ LET w == WinWidth(band, cur.x)
           h == WinHeight(band, cur.y)
       IN  /\ reads' = Append(reads, Window(cur.x, cur.y, w, h))
           /\ IF WindowReadable(band, cur.x, cur.y, w, h)
              THEN /\ acc' = process_buffer(ElemT(band), acc,
                                            ReadAs(band, cur.x, cur.y, w, h),
                                            NodataVal(ElemT(band), band.nodata),
                                            band.exp, 1)
                   /\ IF cur.x + band.block_x < band.cols
                      THEN cur' = [cur EXCEPT !.x = @ + band.block_x] /\ st_pc' = "blocks"
                      ELSE /\ cur' = [x |-> 0, y |-> cur.y + band.block_y]
                           /\ st_pc' = IF cur.y + band.block_y >= band.rows
                                       THEN "final" ELSE "blocks"
              ELSE /\ st_pc' = "err"
                   /\ UNCHANGED <<acc, cur>>
    /\ UNCHANGED <<band, quantiles, valid_values, quart, stats>>

\* "Final calculations" and Ok(RasterStats { .. })
Finalize ==
    /\ st_pc = "final"
    /\ stats' = Ok(FinalStats(band, acc, quart))
    /\ st_pc' = "done"
    /\ UNCHANGED <<band, quantiles, acc, valid_values, quart, cur, reads>>

StatsNext == Begin \/ ReadFull \/ ReadRow \/ ReadBlock \/ Finalize

\* compute_stats_generic is not running
StatsIdle ==
    /\ band = [dtype |-> "Float32", cols |-> 1, rows |-> 1, block_x |-> 1, block_y |-> 1,
               nodata |-> None, exp |-> 0, data |-> <<Num(0)>>, corrupt |-> 0]
    /\ quantiles = FALSE
    /\ st_pc = "idle"
    /\ acc = InitAcc
    /\ valid_values = <<>>
    /\ quart = NoQuartiles
    /\ cur = [x |-> 0, y |-> 0]
    /\ reads = <<>>
    /\ stats = Err

\* the window-by-window run returns what the function returns
StepwiseAgrees ==
    /\ st_pc = "done" => stats = compute_stats_generic(band, quantiles)
    /\ st_pc = "err" => ~compute_stats_generic(band, quantiles).ok

----------------------------------------------------------------------------
(* Output paths of the converters *)

\* a path: directory, file stem, extension
Path(dir, stem, ext) == [dir |-> dir, stem |-> stem, ext |-> ext]
NoPath == Path("", "", "")

\* PathBuf::with_extension
with_extension(p, ext) == [p EXCEPT !.ext = ext]

\* lines 35-48: set_file_name(format!("{}_cog.{}", file_stem, extension))
cog_file_name(p) == [p EXCEPT !.stem = @ \o "_cog"]

\* the path the overwrite guard tests (lines 19 and 51); none for
\* output_path = None with overwrite = true
guarded_path(input_path, output_path, overwrite) ==
    IF output_path.some THEN output_path.val
    ELSE IF overwrite THEN NoPath
    ELSE cog_file_name(input_path)

\* lines 16-61: out_path
out_path(input_path, output_path, overwrite) ==
    IF output_path.some THEN with_extension(output_path.val, "tif")
    ELSE IF overwrite THEN input_path
    ELSE with_extension(cog_file_name(input_path), "tif")

\* vect2gpq.rs lines 22-32: out_path of vector_to_geoparquet
gpq_out_path(input_path, output_path) ==
    IF output_path.some THEN with_extension(output_path.val, "parquet")
    ELSE with_extension(input_path, "parquet")

----------------------------------------------------------------------------
(* Parallel Batch Runner: batch_convert *)

raster_exts == {"tif", "tiff", "tff", "asc", "img"}
vector_exts == {"gpkg", "json", "geojson", "fgb", "kml", "gpx", "shp"}

\* str::to_lowercase on the extensions the model's directories hold
to_lowercase(ext) ==
    CASE ext = "TIF" -> "tif"
      [] ext = "Shp" -> "shp"
      [] OTHER -> ext

\* directory entries: file stem and extension ("" = no extension)
Stems == {"a", "b"}
Exts == {"tif", "TIF", "asc", "Shp", "txt", ""}
Entries == [stem : Stems, ext : Exts]

Extensions(kind) == IF kind = "cog" THEN raster_exts ELSE vector_exts

\* the filter closure of lines 42-49
Matches(entry, extensions) ==
    IF entry.ext = "" THEN FALSE ELSE to_lowercase(entry.ext) \in extensions

\* all enumerations of a finite set (read_dir yields entries in any order)
Perms(S) ==
    { f \in [1 .. Cardinality(S) -> S] : \A i, j \in 1 .. Cardinality(S) : f[i] = f[j] => i = j }

\* what the file system and GDAL do to one conversion: the dataset opens and
\* the destination is created ("fine"), the dataset cannot be opened, the
\* destination cannot be created, or (vector files) the dataset has no layer
Conds(kind) ==
    IF kind = "cog" THEN {"fine", "unopenable", "nocreate"}
    ELSE {"fine", "unopenable", "nolayers", "nocreate"}

\* tif_to_cog: Dataset::open and create_copy failures are mapped to Err
tif_to_cog(cond) == IF cond = "fine" THEN "Ok" ELSE "Err"

\* vector_to_geoparquet: Dataset::open(..).expect(..) and
\* create_vector_only(..).expect(..) panic; no layers is an Err
vector_to_geoparquet(cond) ==
    CASE cond = "fine" -> "Ok"
      [] cond = "nolayers" -> "Err"
      [] cond = "unopenable" -> "Panic"
      [] cond = "nocreate" -> "Panic"

\* the closure handed over by batch_convert_cog / batch_convert_gpq
converter(kind, cond) == IF kind = "cog" THEN tif_to_cog(cond) ELSE vector_to_geoparquet(cond)

\* lines 64-67: output_dir.map(|out_dir| out_dir.join(path.file_name()))
file_output_path(out, entry) ==
    IF out = "none" THEN None ELSE Some(Path("out", entry.stem, entry.ext))

\* the file the converter called for `entry` writes to
converter_out_path(args, entry) ==
    IF args.kind = "cog"
    THEN out_path(Path("in", entry.stem, entry.ext), file_output_path(args.out, entry),
                  args.overwrite)
    ELSE gpq_out_path(Path("in", entry.stem, entry.ext), file_output_path(args.out, entry))

Pending == [st |-> "pending", cond |-> "fine", calls |-> 0, out_path |-> NoPath]

BatchIdle ==
    /\ bc_args = [kind |-> "cog", overwrite |-> FALSE, is_dir |-> FALSE, dir |-> {},
                  out |-> "none"]
    /\ bc_pc = "idle"
    /\ bc_out_exists = FALSE
    /\ bc_files = <<>>
    /\ bc_task = <<>>
    /\ bc_ret = [ok |-> FALSE, v |-> "none"]

BatchInit ==
    /\ bc_args \in { [kind |-> k[1], overwrite |-> k[2], is_dir |-> d, dir |-> es, out |-> o] :
                       k \in {<<"cog", FALSE>>, <<"cog", TRUE>>, <<"gpq", FALSE>>},
                       d \in BOOLEAN,
                       es \in {E \in SUBSET Entries : Cardinality(E) <= MaxEntries},
                       o \in {"none", "present", "absent"} }
    /\ bc_pc = "start"
    /\ bc_out_exists = (bc_args.out = "present")
    /\ bc_files = <<>>
    /\ bc_task = <<>>
    /\ bc_ret = [ok |-> FALSE, v |-> "none"]

\* variant: the output directory is created before the is_dir check
CheckInput_CreatesFirst ==
    /\ bc_pc = "start"
    /\ IF bc_args.out = "absent"
       THEN /\ bc_out_exists' = TRUE
            /\ IF bc_args.is_dir
               THEN bc_pc' = "list" /\ UNCHANGED bc_ret
               ELSE bc_pc' = "returned" /\ bc_ret' = [ok |-> FALSE, v |-> "NotADirectory"]
       ELSE /\ UNCHANGED bc_out_exists
            /\ IF bc_args.is_dir
               THEN bc_pc' = "list" /\ UNCHANGED bc_ret
               ELSE bc_pc' = "returned" /\ bc_ret' = [ok |-> FALSE, v |-> "NotADirectory"]
    /\ UNCHANGED <<bc_args, bc_files, bc_task>>

\* lines 23-36: is_dir check, then create_dir_all of the output directory
CheckInput ==
    /\ bc_pc = "start"
    /\ IF ~bc_args.is_dir
       THEN /\ bc_pc' = "returned"
            /\ bc_ret' = [ok |-> FALSE, v |-> "NotADirectory"]
            /\ UNCHANGED bc_out_exists
       ELSE IF bc_args.out = "absent"
            THEN \/ /\ bc_out_exists' = TRUE
                    /\ bc_pc' = "list"
                    /\ UNCHANGED bc_ret
                 \/ /\ bc_pc' = "returned"
                    /\ bc_ret' = [ok |-> FALSE, v |-> "IOError"]
                    /\ UNCHANGED bc_out_exists
            ELSE /\ bc_pc' = "list"
                 /\ UNCHANGED <<bc_out_exists, bc_ret>>
    /\ UNCHANGED <<bc_args, bc_files, bc_task>>

\* lines 38-59: read_dir, filter by extension, fail if nothing is left
ListFiles ==
    /\ bc_pc = "list"
    /\ \E fs \in Perms({e \in bc_args.dir : Matches(e, Extensions(bc_args.kind))}) :
          /\ bc_files' = fs
          /\ IF fs = <<>>
             THEN /\ bc_pc' = "returned"
                  /\ bc_ret' = [ok |-> FALSE, v |-> "NoMatchingFiles"]
                  /\ UNCHANGED bc_task
             ELSE /\ bc_pc' = "par"
                  /\ bc_task' = [i \in 1 .. Len(fs) |-> Pending]
                  /\ UNCHANGED bc_ret
    /\ UNCHANGED <<bc_args, bc_out_exists>>

\* a worker of the pool picks up file i and calls the converter (line 69)
StartTask(i) ==
    /\ bc_pc = "par"
    /\ bc_task[i].st = "pending"
    /\ \E c \in Conds(bc_args.kind) :
          bc_task' = [bc_task EXCEPT ![i] =
                         [st |-> "running", cond |-> c, calls |-> @.calls + 1,
                          out_path |-> converter_out_path(bc_args, bc_files[i])]]
    /\ UNCHANGED <<bc_args, bc_pc, bc_out_exists, bc_files, bc_ret>>

\* the converter returns (or panics) for file i (lines 69-72)
FinishTask(i) ==
    /\ bc_pc = "par"
    /\ bc_task[i].st = "running"
    /\ bc_task' = [bc_task EXCEPT ![i].st = converter(bc_args.kind, bc_task[i].cond)]
    /\ UNCHANGED <<bc_args, bc_pc, bc_out_exists, bc_files, bc_ret>>

\* indices of the files whose task ended with `st`, in the order of `files`
RECURSIVE IndicesWith(_, _, _)
IndicesWith(task, st, i) ==
    IF i > Len(task) THEN <<>>
    ELSE (IF task[i].st = st THEN <<i>> ELSE <<>>) \o IndicesWith(task, st, i + 1)

\* lines 74-101: collect, partition into successful / failed, return the summary
Collect ==
    /\ bc_pc = "par"
    /\ \A i \in 1 .. Len(bc_files) : bc_task[i].st \in {"Ok", "Err"}
    /\ bc_ret' = [ok |-> TRUE,
                  v |-> [successful |-> [n \in 1 .. Len(IndicesWith(bc_task, "Ok", 1)) |->
                                            bc_files[IndicesWith(bc_task, "Ok", 1)[n]]],
                         failed |-> [n \in 1 .. Len(IndicesWith(bc_task, "Err", 1)) |->
                                        bc_files[IndicesWith(bc_task, "Err", 1)[n]]]]]
    /\ bc_pc' = "returned"
    /\ UNCHANGED <<bc_args, bc_out_exists, bc_files, bc_task>>

\* a converter panicked: once the running tasks have ended rayon resumes the
\* panic in the caller; tasks not yet started are dropped
PropagatePanic ==
    /\ bc_pc = "par"
    /\ \E i \in 1 .. Len(bc_files) : bc_task[i].st = "Panic"
    /\ \A i \in 1 .. Len(bc_files) : bc_task[i].st # "running"
    /\ bc_pc' = "panicked"
    /\ UNCHANGED <<bc_args, bc_out_exists, bc_files, bc_task, bc_ret>>

BatchNext ==
    \/ CheckInput
    \/ ListFiles
    \/ \E i \in 1 .. Len(bc_files) : StartTask(i)
    \/ \E i \in 1 .. Len(bc_files) : FinishTask(i)
    \/ Collect
    \/ PropagatePanic

----------------------------------------------------------------------------
(* Band Orchestrator: compute_all_bands *)

\* for i in 1..=band_count { rasterband(i)?; compute_stats(..)?; push }
RECURSIVE BandsLoop(_, _, _, _)
BandsLoop(bands, all_stats, i, out) ==
    IF i > Len(bands) THEN Ok(out)
    ELSE LET r == compute_stats(bands[i], all_stats)
         IN  IF r.ok THEN BandsLoop(bands, all_stats, i + 1, Append(out, r.v)) ELSE Err

\* the band indices the loop hands to rasterband and compute_stats, in order
RECURSIVE BandsFetched(_, _, _)
BandsFetched(bands, all_stats, i) ==
    IF i > Len(bands) THEN <<>>
    ELSE <<i>> \o (IF compute_stats(bands[i], all_stats).ok
                   THEN BandsFetched(bands, all_stats, i + 1) ELSE <<>>)

\* variant: a failing band ends the loop and the statistics gathered so far
\* are returned
compute_all_bands_Partial(file, all_stats) ==
    IF ~file.open THEN Err
    ELSE LET good == {n \in 0 .. Len(file.bands) :
                         \A i \in 1 .. n : compute_stats(file.bands[i], all_stats).ok}
             last == CHOOSE n \in good : \A m \in good : m <= n
         IN  Ok([i \in 1 .. last |-> compute_stats(file.bands[i], all_stats).v])

\* Dataset::open(path)? and the loop over the bands
compute_all_bands(file, all_stats) ==
    IF ~file.open THEN Err ELSE BandsLoop(file.bands, all_stats, 1, <<>>)

\* Option<f32>::unwrap_or(f32::NAN)
UnwrapOrNaN(o) == IF o.some THEN o.val ELSE NaN

\* a variant that keeps the row of the first band only
raster_stats_to_df_FirstBand(sts, filename) ==
    [i \in 1 .. (IF Len(sts) > 1 THEN 1 ELSE Len(sts)) |->
        [file |-> filename, band |-> i, dtype |-> sts[i].dtype,
         mean |-> sts[i].mean, min |-> sts[i].min, max |-> sts[i].max,
         variance |-> sts[i].variance, stdev |-> sts[i].stdev, cv |-> sts[i].cv,
         valid_count |-> sts[i].valid_count, nodata_count |-> sts[i].nodata_count,
         nan_count |-> sts[i].nan_count, percent_valid |-> sts[i].percent_valid,
         q1 |-> UnwrapOrNaN(sts[i].q1), median |-> UnwrapOrNaN(sts[i].median),
         q3 |-> UnwrapOrNaN(sts[i].q3)]]

\* raster_stats_to_df: one row per RasterStats, keyed by the file name
raster_stats_to_df(sts, filename) ==
    [i \in 1 .. Len(sts) |->
        [file |-> filename, band |-> i, dtype |-> sts[i].dtype,
         mean |-> sts[i].mean, min |-> sts[i].min, max |-> sts[i].max,
         variance |-> sts[i].variance, stdev |-> sts[i].stdev, cv |-> sts[i].cv,
         valid_count |-> sts[i].valid_count, nodata_count |-> sts[i].nodata_count,
         nan_count |-> sts[i].nan_count, percent_valid |-> sts[i].percent_valid,
         q1 |-> UnwrapOrNaN(sts[i].q1), median |-> UnwrapOrNaN(sts[i].median),
         q3 |-> UnwrapOrNaN(sts[i].q3)]]

----------------------------------------------------------------------------
(* Sampling Planner and batch runner: batch_qaqc *)

SUPPORTED_EXTENSIONS == {"tif", "tiff", "asc", "img", "vrt"}

\* str::to_ascii_lowercase on the extensions the model's directories hold
to_ascii_lowercase(ext) == IF ext = "TIF" THEN "tif" ELSE ext

\* pct_check.clamp(0.0, 100.0)
Clamp(pct) == IF pct < 0 THEN 0 ELSE IF pct > 100 THEN 100 ELSE pct

\* pct / 100.0 in f32, for 1 <= pct <= 100: the significand q and the
\* exponent k of the quotient q * 2^-k, 2^23 <= q <= 2^24
RECURSIVE DivExp(_, _)
DivExp(pct, k) == IF pct * Pow2(k) >= 100 * Pow2(F32Bits - 1) THEN k ELSE DivExp(pct, k + 1)

F32Div100(pct) ==
    LET k == DivExp(pct, 0)
        n == pct * Pow2(k)
        q == n \div 100
        r == n % 100
        up == r > 50 \/ (r = 50 /\ q % 2 = 1)
    IN  [q |-> IF up THEN q + 1 ELSE q, k |-> k]

\* ((pct / 100.0) * n_total as f32).ceil() as usize
NSample(pct, n_total) ==
    IF pct = 0 THEN 0
    ELSE LET x == F32Div100(pct)
             y == RoundBits(x.q * n_total, F32Bits)
         IN  (y \div Pow2(x.k)) + (IF y % Pow2(x.k) > 0 THEN 1 ELSE 0)

Reverse(seq) == [i \in 1 .. Len(seq) |-> seq[Len(seq) + 1 - i]]

\* files.shuffle(&mut rng()): every permutation of a short list; of a longer
\* list the model follows two of the outcomes
Shuffles(files) ==
    IF Len(files) <= MaxShuffle
    THEN { [i \in 1 .. Len(files) |-> files[pm[i]]] : pm \in Perms(1 .. Len(files)) }
    ELSE {files, Reverse(files)}

\* the raster files the model puts below the directory
OkBand ==
    [dtype |-> "Float32", cols |-> 2, rows |-> 1, block_x |-> 2, block_y |-> 1,
     nodata |-> Some(Num(18)), exp |-> 1, data |-> <<Num(2), Num(4)>>, corrupt |-> 0]
NoValidBand ==
    [dtype |-> "Float32", cols |-> 2, rows |-> 1, block_x |-> 2, block_y |-> 1,
     nodata |-> Some(Num(18)), exp |-> 1, data |-> <<NaN, Num(18)>>, corrupt |-> 0]
CorruptBand ==
    [dtype |-> "Float32", cols |-> 2, rows |-> 1, block_x |-> 2, block_y |-> 1,
     nodata |-> Some(Num(18)), exp |-> 1, data |-> <<Num(2), Num(4)>>, corrupt |-> 2]

FileKindList ==
    << [ext |-> "tif", open |-> TRUE, bands |-> <<OkBand, NoValidBand>>],
       [ext |-> "TIF", open |-> TRUE, bands |-> <<NoValidBand>>],
       [ext |-> "tif", open |-> TRUE, bands |-> <<OkBand, CorruptBand, OkBand>>],
       [ext |-> "tif", open |-> FALSE, bands |-> <<>>],
       [ext |-> "txt", open |-> TRUE, bands |-> <<OkBand>>] >>

FileKinds == {FileKindList[i] : i \in 1 .. Len(FileKindList)}

\* the directory trees: up to MaxFiles files, listed kind by kind (the order
\* in which the walk meets them is undone by the shuffle of line 377)
Directories ==
    UNION { { [i \in 1 .. n |-> FileKindList[f[i]]] :
                f \in {g \in [1 .. n -> 1 .. Len(FileKindList)] :
                          \A i \in 1 .. n - 1 : g[i] <= g[i + 1]} } :
            n \in 0 .. MaxFiles }

PctValues == {-5, 0, 50, 100, 130}

\* the walk of lines 360-371: the matching files, in walk order
RECURSIVE WalkFrom(_, _)
WalkFrom(dir, i) ==
    IF i > Len(dir) THEN <<>>
    ELSE (IF to_ascii_lowercase(dir[i].ext) \in SUPPORTED_EXTENSIONS THEN <<i>> ELSE <<>>)
         \o WalkFrom(dir, i + 1)

Walk(dir) == WalkFrom(dir, 1)

NoOutput == [created |-> 0, name |-> "", encoding |-> "", rows |-> <<>>]
NoTask == [st |-> "pending", fetched |-> <<>>, df |-> None]

QaqcIdle ==
    /\ qq_args = [dir |-> <<>>, pct_check |-> 0, quantiles |-> FALSE, output_format |-> "Csv"]
    /\ qq_pc = "idle"
    /\ qq_sample = <<>>
    /\ qq_task = <<>>
    /\ qq_counter = 1
    /\ qq_result = <<>>
    /\ qq_out = NoOutput
    /\ qq_ret = [ok |-> FALSE, v |-> "none"]

QaqcInit ==
    /\ qq_args \in [dir : Directories, pct_check : PctValues, quantiles : BOOLEAN,
                    output_format : {"Csv", "Parquet"}]
    /\ qq_pc = "start"
    /\ qq_sample = <<>>
    /\ qq_task = <<>>
    /\ qq_counter = 1
    /\ qq_result = <<>>
    /\ qq_out = NoOutput
    /\ qq_ret = [ok |-> FALSE, v |-> "none"]

\* lines 359-381: clamp, walk, n_total == 0 check, n_sample, shuffle, slice
PlanSample ==
    /\ qq_pc = "start"
    /\ LET files == Walk(qq_args.dir)
           n_total == Len(files)
           n_sample == NSample(Clamp(qq_args.pct_check), n_total)
       IN  IF n_total = 0
           THEN /\ qq_pc' = "returned"
                /\ qq_ret' = [ok |-> FALSE, v |-> "No files found"]
                /\ UNCHANGED <<qq_sample, qq_task>>
           ELSE IF n_sample > n_total
           THEN /\ qq_pc' = "panicked"
                /\ UNCHANGED <<qq_sample, qq_task, qq_ret>>
           ELSE \E sh \in Shuffles(files) :
                   /\ qq_sample' = SubSeq(sh, 1, n_sample)
                   /\ qq_task' = [k \in 1 .. n_sample |-> NoTask]
                   /\ qq_pc' = "par"
                   /\ UNCHANGED qq_ret
    /\ UNCHANGED <<qq_args, qq_counter, qq_result, qq_out>>

\* a worker picks up sampled file k: counter.fetch_add(1) and the log line
StartFile(k) ==
    /\ qq_pc = "par"
    /\ qq_task[k].st = "pending"
    /\ qq_task' = [qq_task EXCEPT ![k].st = "running"]
    /\ qq_counter' = qq_counter + 1
    /\ UNCHANGED <<qq_args, qq_pc, qq_sample, qq_result, qq_out, qq_ret>>

\* lines 393-396: compute_all_bands, Some(raster_stats_to_df) or None
FinishFile(k) ==
    /\ qq_pc = "par"
    /\ qq_task[k].st = "running"
    /\ LET file == qq_args.dir[qq_sample[k]]
           r == compute_all_bands(file, qq_args.quantiles)
       IN  qq_task' = [qq_task EXCEPT ![k] =
                          [st |-> "done",
                           fetched |-> IF file.open
                                       THEN BandsFetched(file.bands, qq_args.quantiles, 1)
                                       ELSE <<>>,
                           df |-> IF r.ok
                                  THEN [some |-> TRUE,
                                        val |-> raster_stats_to_df(r.v, qq_sample[k])]
                                  ELSE None]]
    /\ UNCHANGED <<qq_args, qq_pc, qq_sample, qq_counter, qq_result, qq_out, qq_ret>>

\* the frames that filter_map kept, in the order of sample_files
RECURSIVE Frames(_, _)
Frames(task, k) ==
    IF k > Len(task) THEN <<>>
    ELSE (IF task[k].df.some THEN <<task[k].df.val>> ELSE <<>>) \o Frames(task, k + 1)

\* concat: the rows of the frames, one after the other
RECURSIVE ConcatRows(_)
ConcatRows(dfs) == IF dfs = <<>> THEN <<>> ELSE Head(dfs) \o ConcatRows(Tail(dfs))

\* lines 398-404: collect, assert!(!dfs.is_empty()), concat
Concat ==
    /\ qq_pc = "par"
    /\ \A k \in 1 .. Len(qq_task) : qq_task[k].st = "done"
    /\ LET dfs == Frames(qq_task, 1)
       IN  IF dfs = <<>>
           THEN qq_pc' = "panicked" /\ UNCHANGED qq_result
           ELSE qq_pc' = "write" /\ qq_result' = ConcatRows(dfs)
    /\ UNCHANGED <<qq_args, qq_sample, qq_task, qq_counter, qq_out, qq_ret>>

\* variant: the table is written as soon as a worker has finished
WriteOutput_BeforeJoin ==
    /\ qq_pc \in {"par", "write"}
    /\ qq_out' = [created |-> qq_out.created + 1, name |-> "qaqc.parquet",
                  encoding |-> qq_args.output_format,
                  rows |-> ConcatRows(Frames(qq_task, 1))]
    /\ qq_pc' = "returned"
    /\ qq_ret' = [ok |-> TRUE, v |-> "()"]
    /\ UNCHANGED <<qq_args, qq_sample, qq_task, qq_counter, qq_result>>

\* lines 406-421: File::create(directory.join("qaqc.parquet")).unwrap(), then
\* the writer of the requested format
WriteOutput ==
    /\ qq_pc = "write"
    /\ \/ /\ qq_pc' = "panicked"
          /\ UNCHANGED <<qq_out, qq_ret>>
       \/ /\ qq_out' = [created |-> qq_out.created + 1, name |-> "qaqc.parquet",
                        encoding |-> qq_args.output_format, rows |-> <<>>]
          /\ qq_pc' = "returned"
          /\ qq_ret' = [ok |-> FALSE, v |-> "write failed"]
       \/ /\ qq_out' = [created |-> qq_out.created + 1, name |-> "qaqc.parquet",
                        encoding |-> qq_args.output_format, rows |-> qq_result]
          /\ qq_pc' = "returned"
          /\ qq_ret' = [ok |-> TRUE, v |-> "()"]
    /\ UNCHANGED <<qq_args, qq_sample, qq_task, qq_counter, qq_result>>

QaqcNext ==
    \/ PlanSample
    \/ \E k \in 1 .. Len(qq_task) : StartFile(k)
    \/ \E k \in 1 .. Len(qq_task) : FinishFile(k)
    \/ Concat
    \/ WriteOutput

\* the sampling arithmetic alone, on directories of up to MaxTotal matching files
PlanIdle ==
    /\ pl_args = [pct_check |-> 0, n_total |-> 0]
    /\ pl_pc = "idle"
    /\ pl_sample = <<>>

PlanInit ==
    /\ pl_args \in [pct_check : -1 .. 101, n_total : 1 .. MaxTotal]
    /\ pl_pc = "start"
    /\ pl_sample = <<>>

\* lines 359 and 376-378 on a list of n_total files
PlanLarge ==
    /\ pl_pc = "start"
    /\ LET files == [i \in 1 .. pl_args.n_total |-> i]
           n_sample == NSample(Clamp(pl_args.pct_check), pl_args.n_total)
       IN  IF n_sample > pl_args.n_total
           THEN pl_pc' = "panicked" /\ UNCHANGED pl_sample
           ELSE \E sh \in Shuffles(files) :
                   /\ pl_sample' = SubSeq(sh, 1, n_sample)
                   /\ pl_pc' = "sampled"
    /\ UNCHANGED pl_args

----------------------------------------------------------------------------
(* COG converter: tif_to_cog *)

\* the calls of tif_to_cog the model follows
CogInputs == {Path("in", "a", e) : e \in {"tif", "asc"}}
CogOutputs == {None} \cup {Some(Path("out", "a", e)) : e \in {"tif", "img"}}

\* the paths that may exist when tif_to_cog is called
CogDisk ==
    CogInputs
    \cup {Path("in", "a_cog", e) : e \in {"tif", "asc"}}
    \cup {Path("out", "a", e) : e \in {"tif", "img"}}

NotWritten == [path |-> NoPath, existed |-> FALSE]

CogIdle ==
    /\ cog_args = [input_path |-> NoPath, output_path |-> None, overwrite |-> FALSE]
    /\ cog_fs = {}
    /\ cog_pc = "idle"
    /\ cog_checked = {}
    /\ cog_out_path = NoPath
    /\ cog_wrote = NotWritten
    /\ cog_ret = [ok |-> FALSE, v |-> "none"]

CogInit ==
    /\ cog_args \in [input_path : CogInputs, output_path : CogOutputs, overwrite : BOOLEAN]
    /\ cog_fs \in {fs \in SUBSET CogDisk : Cardinality(fs) <= MaxExisting}
    /\ cog_pc = "start"
    /\ cog_checked = {}
    /\ cog_out_path = NoPath
    /\ cog_wrote = NotWritten
    /\ cog_ret = [ok |-> FALSE, v |-> "none"]

\* lines 12-14: the input file must exist
CheckInputExists ==
    /\ cog_pc = "start"
    /\ IF cog_args.input_path \notin cog_fs
       THEN cog_pc' = "returned" /\ cog_ret' = [ok |-> FALSE, v |-> "does not exist"]
       ELSE cog_pc' = "resolve" /\ UNCHANGED cog_ret
    /\ UNCHANGED <<cog_args, cog_fs, cog_checked, cog_out_path, cog_wrote>>

\* lines 16-61: the overwrite guard and out_path
ResolveOutPath ==
    /\ cog_pc = "resolve"
    /\ LET g == guarded_path(cog_args.input_path, cog_args.output_path, cog_args.overwrite)
       IN  IF g = NoPath
           THEN /\ cog_out_path' = out_path(cog_args.input_path, cog_args.output_path,
                                            cog_args.overwrite)
                /\ cog_pc' = "open"
                /\ UNCHANGED <<cog_checked, cog_ret>>
           ELSE /\ cog_checked' = cog_checked \cup {g}
                /\ IF g \in cog_fs /\ ~cog_args.overwrite
                   THEN /\ cog_pc' = "returned"
                        /\ cog_ret' = [ok |-> FALSE,
                                       v |-> "already exists and overwrite is false"]
                        /\ UNCHANGED cog_out_path
                   ELSE /\ cog_out_path' = out_path(cog_args.input_path,
                                                    cog_args.output_path,
                                                    cog_args.overwrite)
                        /\ cog_pc' = "open"
                        /\ UNCHANGED cog_ret
    /\ UNCHANGED <<cog_args, cog_fs, cog_wrote>>

\* lines 65-66: Dataset::open(input_path), which GDAL may refuse
OpenDataset ==
    /\ cog_pc = "open"
    /\ \/ cog_pc' = "copy" /\ UNCHANGED cog_ret
       \/ cog_pc' = "returned" /\ cog_ret' = [ok |-> FALSE, v |-> "Failed to open dataset"]
    /\ UNCHANGED <<cog_args, cog_fs, cog_checked, cog_out_path, cog_wrote>>

\* lines 75-79: create_copy to out_path, which GDAL may refuse
CreateCopy ==
    /\ cog_pc = "copy"
    /\ \/ /\ cog_wrote' = [path |-> cog_out_path, existed |-> cog_out_path \in cog_fs]
          /\ cog_fs' = cog_fs \cup {cog_out_path}
          /\ cog_ret' = [ok |-> TRUE, v |-> "()"]
       \/ /\ cog_ret' = [ok |-> FALSE, v |-> "Failed to create COG"]
          /\ UNCHANGED <<cog_wrote, cog_fs>>
    /\ cog_pc' = "returned"
    /\ UNCHANGED <<cog_args, cog_checked, cog_out_path>>

CogNext == CheckInputExists \/ ResolveOutPath \/ OpenDataset \/ CreateCopy

----------------------------------------------------------------------------
(* Specifications *)

InitStats == StatsInit /\ BatchIdle /\ QaqcIdle /\ PlanIdle /\ CogIdle

NextStats == StatsNext /\ UNCHANGED <<bcVars, qqVars, plVars, cogVars>>

SpecStats == InitStats /\ [][NextStats]_vars

InitBatch == BatchInit /\ StatsIdle /\ QaqcIdle /\ PlanIdle /\ CogIdle

NextBatch == BatchNext /\ UNCHANGED <<statsVars, qqVars, plVars, cogVars>>

SpecBatch == InitBatch /\ [][NextBatch]_vars

InitQaqc == QaqcInit /\ StatsIdle /\ BatchIdle /\ PlanIdle /\ CogIdle

NextQaqc == QaqcNext /\ UNCHANGED <<statsVars, bcVars, plVars, cogVars>>

SpecQaqc == InitQaqc /\ [][NextQaqc]_vars

InitPlan == PlanInit /\ StatsIdle /\ BatchIdle /\ QaqcIdle /\ CogIdle

NextPlan == PlanLarge /\ UNCHANGED <<statsVars, bcVars, qqVars, cogVars>>

SpecPlan == InitPlan /\ [][NextPlan]_vars

InitCog == CogInit /\ StatsIdle /\ BatchIdle /\ QaqcIdle /\ PlanIdle

NextCog == CogNext /\ UNCHANGED <<statsVars, bcVars, qqVars, plVars>>

SpecCog == InitCog /\ [][NextCog]_vars

----------------------------------------------------------------------------
(* Reference notions used by the properties *)

\* |val - nd| < 1e-6 for two finite values on the grid 2^-exp
Near(val, nd, exp) ==
    /\ nd.k = "num"
    /\ LET d == Abs(val.v - nd.v)
       IN  IF exp > 30 THEN TRUE ELSE d <= 2147 /\ d * EpsMicro < Pow2(exp)

\* the class of a sample of band b
SampleClass(b, s) ==
    IF s.k # "num" THEN "nonfinite"
    ELSE IF b.nodata.some /\ Near(s, b.nodata.val, b.exp) THEN "nodata"
    ELSE "valid"

CountClass(b, buf, c) == Cardinality({i \in 1 .. Len(buf) : SampleClass(b, buf[i]) = c})

ValidSamples(b, buf) ==
    LET IsValid(s) == SampleClass(b, s) = "valid" IN SelectSeq(buf, IsValid)

RECURSIVE AccumulateSeq(_, _, _, _)
AccumulateSeq(T, a, vals, i) ==
    IF i > Len(vals) THEN a ELSE AccumulateSeq(T, Accumulate(T, a, vals[i]), vals, i + 1)

Counts(st) == <<st.valid_count, st.nodata_count, st.nan_count>>

LastWindow(rs) == rs[Len(rs)]

----------------------------------------------------------------------------
(* C4: whatever the read strategy (full read, row-wise, block-wise), the     *)
(* returned RasterStats has valid_count + nodata_count + nan_count equal to  *)
(* rows * cols, and the three counts are those any other strategy returns on *)
(* the same pixel data.                                                      *)
C4_ExactAccounting ==
    st_pc = "done" =>
        /\ stats.ok
        /\ stats.v.valid_count + stats.v.nodata_count + stats.v.nan_count = Cells(band)
        /\ \A q2 \in BOOLEAN : \A by \in {1, MaxBlock} :
              LET r == compute_stats_generic(
                           [band EXCEPT !.block_y = by], q2)
              IN  r.ok => Counts(r.v) = Counts(stats.v)

\* a block-wise run over a band that is no multiple of its block shape,
\* holding a non-finite, a nodata and a valid sample
C4_Witness ==
    /\ st_pc = "done"
    /\ Strategy(band, quantiles) = "blocks"
    /\ band.cols % band.block_x # 0
    /\ band.rows % band.block_y # 0
    /\ band.cols > band.block_x /\ band.rows > band.block_y
    /\ stats.v.nan_count >= 1 /\ stats.v.nodata_count >= 1 /\ stats.v.valid_count >= 1

(* C5: every sample of a window that was read falls in exactly one class:   *)
(* non-finite samples raise only nan_count, finite samples within 1e-6 of   *)
(* the nodata value raise only nodata_count, all others raise valid_count   *)
(* and are the only ones entering sum, sum of squares, min and max; without *)
(* a nodata value nodata_count stays 0.                                     *)
C5_Classification ==
    [][ (st_pc \in {"full", "rows", "blocks"} /\ st_pc' # "err") =>
          LET w == LastWindow(reads')
              buf == ReadAs(band, w.x, w.y, w.w, w.h)
              ref == AccumulateSeq(ElemT(band), acc, ValidSamples(band, buf), 1)
          IN  /\ acc'.nan_count = acc.nan_count + CountClass(band, buf, "nonfinite")
              /\ acc'.nodata_count = acc.nodata_count + CountClass(band, buf, "nodata")
              /\ acc'.valid_count = acc.valid_count + CountClass(band, buf, "valid")
              /\ acc'.sum = ref.sum /\ acc'.sum_sq = ref.sum_sq
              /\ acc'.min = ref.min /\ acc'.max = ref.max
              /\ (~band.nodata.some => acc'.nodata_count = 0) ]_vars

\* a band with a nodata value whose samples include a non-finite one, one
\* that is near but not equal to the nodata value, and a valid one
C5_Witness ==
    /\ st_pc = "final"
    /\ band.nodata = Some(Num(18)) /\ band.exp = 21
    /\ \E i \in 1 .. Cells(band) : band.data[i] = Num(20)
    /\ \E i \in 1 .. Cells(band) : band.data[i] = Num(21)
    /\ acc.nan_count >= 1 /\ acc.nodata_count >= 1 /\ acc.valid_count >= 1

\* the finite values of a sequence of samples
Values(buf) == [i \in 1 .. Len(buf) |-> buf[i].v]

FracLe(a, b) == ~FracLt(b, a)

(* C6: the final statistics derive from the valid samples alone: mean =     *)
(* sum / valid_count, variance = max(0, sum_sq / valid_count - mean^2),     *)
(* stdev = sqrt(variance), cv = stdev / mean if mean # 0 else 0; hence a    *)
(* band whose valid samples all equal c has mean c, variance 0, stdev 0 and *)
(* cv 0, and the 2x2 band [1, 2, NaN, 9] with nodata 9 has valid_count 2,   *)
(* nan_count 1, nodata_count 1, mean 1.5, min 1, max 2, variance 0.25 and   *)
(* stdev 0.5 (grid 2^-1: 1.5 is 3 units, 0.25 is 1 squared unit).           *)
C6_DerivedStatistics ==
    st_pc = "done" =>
        LET s == stats.v
            n == s.valid_count
            valid == ValidSamples(band, band.data)
        IN  /\ n >= 1 =>
                 /\ s.mean = Frac(acc.sum, n)
                 /\ s.variance =
                        (LET v == FracSub(Frac(acc.sum_sq, n), FracMul(s.mean, s.mean))
                         IN  IF FracLt(v, Zero) THEN Zero ELSE v)
                 /\ s.stdev = FSqrt(s.variance)
                 /\ s.cv = (IF s.mean # Zero THEN Cv(s.mean, s.stdev) ELSE Zero)
            /\ (Len(valid) >= 1 /\ \A i \in 1 .. Len(valid) : valid[i] = valid[1]) =>
                 /\ s.mean = Frac(valid[1].v, 1)
                 /\ s.variance = Zero
                 /\ s.stdev = Zero
                 /\ s.cv = Zero
            /\ ( /\ band.cols = 2 /\ band.rows = 2 /\ band.exp = 1
                 /\ band.data = <<Num(2), Num(4), NaN, Num(18)>>
                 /\ band.nodata = Some(Num(18)) ) =>
                 /\ s.valid_count = 2 /\ s.nan_count = 1 /\ s.nodata_count = 1
                 /\ s.mean = Frac(3, 1) /\ s.min = Frac(2, 1) /\ s.max = Frac(4, 1)
                 /\ s.variance = Frac(1, 1) /\ s.stdev = Frac(1, 1)

(* C8: with quantiles requested and n >= 1 valid samples, q1, median and q3 *)
(* are the elements at index round((n-1)*p), p = 0.25, 0.50, 0.75, of the   *)
(* valid samples sorted ascending, the index lies in [0, n-1], and          *)
(* min <= q1 <= median <= q3 <= max; otherwise the three fields are absent. *)
C8_Quartiles ==
    st_pc = "done" =>
        LET s == stats.v
            sorted == SortAscending(Values(ValidSamples(band, band.data)))
            n == Len(sorted)
            El(p4) == Some(Num(sorted[PercentileIdx(n, p4) + 1]))
        IN  IF quantiles /\ n >= 1
            THEN /\ \A p4 \in 1 .. 3 : PercentileIdx(n, p4) \in 0 .. n - 1
                 /\ s.q1 = El(1) /\ s.median = El(2) /\ s.q3 = El(3)
                 /\ FracLe(s.min, Frac(s.q1.val.v, 1))
                 /\ s.q1.val.v <= s.median.val.v
                 /\ s.median.val.v <= s.q3.val.v
                 /\ FracLe(Frac(s.q3.val.v, 1), s.max)
            ELSE s.q1 = None /\ s.median = None /\ s.q3 = None

----------------------------------------------------------------------------
(* Properties of batch_convert *)

\* spellings of the allow-list extensions that differ in case only
ToUpper(x) == IF x = "tif" THEN "TIF" ELSE IF x = "shp" THEN "SHP" ELSE x
Capital(x) == IF x = "tif" THEN "Tif" ELSE IF x = "shp" THEN "Shp" ELSE x

Dispatched == bc_files # <<>>
BatchEnded == bc_pc \in {"returned", "panicked"}

\* the paths of a summary list, as a set, and without repetition
Range(seq) == {seq[i] : i \in 1 .. Len(seq)}
NoDup(seq) == \A i, j \in 1 .. Len(seq) : seq[i] = seq[j] => i = j

\* the summary partitions the files: successful iff the converter returned Ok
PartitionsFiles(sum) ==
    /\ NoDup(sum.successful \o sum.failed)
    /\ Range(sum.successful) \cup Range(sum.failed) = Range(bc_files)
    /\ Len(sum.successful) + Len(sum.failed) = Len(bc_files)
    /\ \A i \in 1 .. Len(bc_files) :
          bc_files[i] \in Range(sum.successful)
              <=> converter(bc_args.kind, bc_task[i].cond) = "Ok"

(* C1: on a directory with at least one matching file, under every          *)
(* interleaving of the parallel invocations, the converter is invoked       *)
(* exactly once per matching file, the call returns Ok(BatchSummary), every *)
(* matching file is in exactly one of successful / failed (successful iff   *)
(* its converter returned Ok), the two lengths add up to the number of      *)
(* matching files, and an Err for one file never keeps another file from    *)
(* being converted.                                                         *)
C1_BatchPartition ==
    /\ \A i \in 1 .. Len(bc_files) : bc_task[i].calls <= 1
    /\ \A i, j \in 1 .. Len(bc_files) :
          (bc_pc = "par" /\ bc_task[i].st = "Err" /\ bc_task[j].st = "pending")
              => ENABLED StartTask(j)
    /\ (Dispatched /\ BatchEnded) =>
          /\ bc_pc = "returned" /\ bc_ret.ok
          /\ \A i \in 1 .. Len(bc_files) : bc_task[i].calls = 1
          /\ PartitionsFiles(bc_ret.v)

(* C2: in batch_convert_gpq a matching file whose dataset cannot be opened  *)
(* (or whose destination cannot be created) ends up as one entry of         *)
(* BatchSummary.failed, every sibling file is still converted and the batch *)
(* returns its BatchSummary.                                                *)
C2_GpqFailureIsolated ==
    \A i \in 1 .. Len(bc_files) :
        ( /\ bc_args.kind = "gpq" /\ BatchEnded
          /\ bc_task[i].st # "pending"
          /\ bc_task[i].cond \in {"unopenable", "nocreate"} ) =>
            /\ bc_pc = "returned" /\ bc_ret.ok
            /\ Cardinality({n \in 1 .. Len(bc_ret.v.failed) :
                               bc_ret.v.failed[n] = bc_files[i]}) = 1
            /\ \A j \in 1 .. Len(bc_files) : bc_task[j].st \in {"Ok", "Err"}

\* a batch whose converters all returned partitions its files
PartitionOnReturn ==
    (Dispatched /\ bc_pc = "returned") =>
        /\ bc_ret.ok
        /\ \A i \in 1 .. Len(bc_files) : bc_task[i].calls = 1
        /\ PartitionsFiles(bc_ret.v)

NoCalls == \A i \in 1 .. Len(bc_task) : bc_task[i].calls = 0

(* C3: batch_convert returns an error and never invokes the converter when  *)
(* the input path is no directory, and when no entry has an extension that  *)
(* is, compared case-insensitively, in the allow-list; in the first case    *)
(* the output directory is not created either.                              *)
C3_RejectedBeforeDispatch ==
    /\ (~bc_args.is_dir /\ bc_pc \notin {"idle", "start"}) =>
          /\ bc_pc = "returned" /\ ~bc_ret.ok /\ bc_ret.v = "NotADirectory"
          /\ NoCalls
          /\ bc_out_exists = (bc_args.out = "present")
    /\ ( /\ bc_args.is_dir /\ bc_pc \notin {"idle", "start", "list"}
         /\ \A e \in bc_args.dir :
               \A x \in Extensions(bc_args.kind) : e.ext \notin {x, ToUpper(x), Capital(x)} ) =>
          /\ bc_pc = "returned" /\ ~bc_ret.ok
          /\ NoCalls

\* a non-directory input was rejected although an output directory was
\* asked for and the entries would have matched
C3_Witness ==
    /\ bc_pc = "returned" /\ bc_ret.v = "NotADirectory"
    /\ ~bc_args.is_dir /\ bc_args.out = "absent"
    /\ \E e \in bc_args.dir : e.ext = "TIF"

----------------------------------------------------------------------------
(* Properties of batch_qaqc *)

ZeroValid(b) == \A i \in 1 .. Cells(b) : SampleClass(b, b.data[i]) # "valid"

QaqcEnded == qq_pc \in {"returned", "panicked"}

(* C7: a band without any valid sample is no error: its statistics are Ok   *)
(* with mean NaN, valid_count 0, percent_valid 0 and nodata_count +         *)
(* nan_count = rows * cols, and in batch_qaqc a readable file holding such  *)
(* a band still yields one row per band, which the written table contains;  *)
(* the file is not skipped as failed.                                       *)
C7_ZeroValidBand ==
    \A k \in 1 .. Len(qq_task) :
        LET f == qq_args.dir[qq_sample[k]]
            zero == {b \in 1 .. Len(f.bands) : ZeroValid(f.bands[b])}
        IN  ( /\ qq_task[k].st = "done"
              /\ f.open /\ \A b \in 1 .. Len(f.bands) : f.bands[b].corrupt = 0
              /\ zero # {} ) =>
                /\ qq_task[k].df.some
                /\ Len(qq_task[k].df.val) = Len(f.bands)
                /\ \A b \in zero :
                      LET row == qq_task[k].df.val[b]
                      IN  /\ row.mean = NaNF
                          /\ row.valid_count = 0
                          /\ row.percent_valid = Zero
                          /\ row.nodata_count + row.nan_count = Cells(f.bands[b])
                /\ (qq_pc = "returned" /\ qq_ret.ok) =>
                      \A b \in 1 .. Len(f.bands) :
                          qq_task[k].df.val[b] \in Range(qq_out.rows)

\* a table was written that holds the row of a band without valid samples
C7_Witness ==
    /\ qq_pc = "returned" /\ qq_ret.ok
    /\ \E n \in 1 .. Len(qq_out.rows) :
          /\ qq_out.rows[n].mean = NaNF
          /\ qq_out.rows[n].valid_count = 0
          /\ qq_out.rows[n].nodata_count = 1 /\ qq_out.rows[n].nan_count = 1

CeilDiv(a, b) == (a + b - 1) \div b

(* C9: for n_total >= 1 matching files and any requested percentage p       *)
(* (clamped to [0, 100]) the working set is a duplicate-free subset of the  *)
(* matching files of size exactly ceil(p / 100 * n_total), never more than  *)
(* n_total; for p = 100 it is the whole set of matching files.              *)
C9_SampleSize ==
    pl_pc \notin {"idle", "start"} =>
        LET p == Clamp(pl_args.pct_check)
            n == pl_args.n_total
        IN  /\ pl_pc = "sampled"
            /\ NoDup(pl_sample)
            /\ Range(pl_sample) \subseteq 1 .. n
            /\ Len(pl_sample) = CeilDiv(p * n, 100)
            /\ Len(pl_sample) <= n
            /\ p = 100 => Range(pl_sample) = 1 .. n

(* C10: for pct_check = 0 on a directory holding matching raster files the  *)
(* sampled set is empty and batch_qaqc either completes as a no-op or       *)
(* returns the NoFilesFound error; it does not abort abnormally.            *)
C10_ZeroPercent ==
    ( /\ qq_args.pct_check = 0
      /\ Walk(qq_args.dir) # <<>>
      /\ qq_pc \notin {"idle", "start"} ) =>
        /\ qq_sample = <<>>
        /\ qq_pc # "panicked"
        /\ qq_pc = "returned" => (qq_ret.ok \/ qq_ret.v = "No files found")

\* every band of the file can be fetched and read
Succeeds(f) == f.open /\ \A b \in 1 .. Len(f.bands) : f.bands[b].corrupt = 0

\* the positions of the table's rows that belong to one file
RowsOf(rows, file) == {n \in 1 .. Len(rows) : rows[n].file = file}

RECURSIVE SumBands(_, _, _)
SumBands(dir, files, i) ==
    IF i > Len(files) THEN 0 ELSE Len(dir[files[i]].bands) + SumBands(dir, files, i + 1)

(* C11: the table batch_qaqc writes holds exactly one row per band of every *)
(* sampled file whose statistics succeeded and no row of a file that        *)
(* failed or was not sampled, whatever the order in which the workers ran;  *)
(* with pct_check = 100 and files that all succeed it holds the sum of the  *)
(* files' band counts.                                                      *)
C11_TableRows ==
    (qq_pc = "returned" /\ qq_ret.ok) =>
        /\ \A n \in 1 .. Len(qq_out.rows) : qq_out.rows[n].file \in Range(qq_sample)
        /\ \A k \in 1 .. Len(qq_sample) :
              LET f == qq_args.dir[qq_sample[k]]
                  rs == RowsOf(qq_out.rows, qq_sample[k])
              IN  IF Succeeds(f)
                  THEN /\ Cardinality(rs) = Len(f.bands)
                       /\ \A b \in 1 .. Len(f.bands) : \E n \in rs : qq_out.rows[n].band = b
                  ELSE rs = {}
        /\ ( /\ Clamp(qq_args.pct_check) = 100
             /\ \A i \in Range(Walk(qq_args.dir)) : Succeeds(qq_args.dir[i]) ) =>
                Len(qq_out.rows) = SumBands(qq_args.dir, Walk(qq_args.dir), 1)

\* a table was written from a sample in which one file failed and a file of
\* two bands succeeded
C11_Witness ==
    /\ qq_pc = "returned" /\ qq_ret.ok
    /\ \E k \in 1 .. Len(qq_sample) : ~Succeeds(qq_args.dir[qq_sample[k]])
    /\ \E k \in 1 .. Len(qq_sample) :
          /\ Succeeds(qq_args.dir[qq_sample[k]])
          /\ Len(qq_args.dir[qq_sample[k]].bands) = 2
          /\ Cardinality(RowsOf(qq_out.rows, qq_sample[k])) = 2

\* the file name extension that names an encoding
ExtensionOf(encoding) == IF encoding = "Csv" THEN "csv" ELSE "parquet"

QaqcFileName(ext) == IF ext = "csv" THEN "qaqc.csv" ELSE "qaqc.parquet"

(* C12: in directory mode the table is written to <directory>/qaqc.<ext>    *)
(* where <ext> is the requested output format: qaqc.csv for csv,            *)
(* qaqc.parquet for parquet; the name's extension matches the encoding of   *)
(* the file's content.                                                      *)
C12_OutputName ==
    qq_out.created > 0 =>
        /\ qq_out.encoding = qq_args.output_format
        /\ qq_out.name = QaqcFileName(ExtensionOf(qq_args.output_format))

AllWorkersDone == \A k \in 1 .. Len(qq_task) : qq_task[k].st = "done"

(* C13: the output file of batch_qaqc is created and written exactly once,  *)
(* in one step of the calling thread, after every per-file task has         *)
(* finished: no step of a worker changes the file and none changes it       *)
(* while a worker is pending or running.                                    *)
C13_WriteOnceAfterJoin ==
    /\ [](qq_out.created <= 1)
    /\ [](qq_out.created > 0 => AllWorkersDone)
    /\ []((qq_pc = "returned" /\ qq_ret.ok) => qq_out.created = 1)
    /\ [][qq_out' # qq_out =>
            /\ AllWorkersDone
            /\ qq_task' = qq_task
            /\ qq_out.created = 0 /\ qq_out'.created = 1]_vars

\* a run of two workers, both finished, has written its table
C13_Witness ==
    /\ qq_pc = "returned" /\ qq_ret.ok
    /\ qq_out.created = 1
    /\ Len(qq_task) >= 2 /\ AllWorkersDone
    /\ Len(qq_out.rows) >= 2

----------------------------------------------------------------------------
(* Properties of the read strategy *)

Min(a, b) == IF a < b THEN a ELSE b

\* the window lies on the native block grid, clipped at the band's edge
OnBlockGrid(b, win) ==
    /\ win.x % b.block_x = 0 /\ win.y % b.block_y = 0
    /\ win.x < b.cols /\ win.y < b.rows
    /\ win.w = Min(b.block_x, b.cols - win.x)
    /\ win.h = Min(b.block_y, b.rows - win.y)

(* C14: the read strategy depends on the quantiles flag and the block       *)
(* height only and is one of three: with quantiles the band is read in one  *)
(* full read whatever its block shape; otherwise with block height 1 it is  *)
(* read as exactly `rows` single-row windows in ascending row order;        *)
(* otherwise it is read window by window over the native block grid. The    *)
(* windows of a band all belong to the one strategy chosen.                 *)
C14_StrategySelection ==
    st_pc \notin {"idle", "start"} =>
        /\ st_pc \in {"full", "rows", "blocks"} =>
              st_pc = (IF quantiles THEN "full"
                       ELSE IF band.block_y = 1 THEN "rows" ELSE "blocks")
        /\ quantiles =>
              /\ Len(reads) <= 1
              /\ \A n \in 1 .. Len(reads) : reads[n] = Window(0, 0, band.cols, band.rows)
              /\ st_pc = "done" => Len(reads) = 1 /\ stats.v.q1.some = (stats.v.valid_count > 0)
        /\ (~quantiles /\ band.block_y = 1) =>
              /\ Len(reads) <= band.rows
              /\ \A n \in 1 .. Len(reads) : reads[n] = Window(0, n - 1, band.cols, 1)
              /\ st_pc = "done" => Len(reads) = band.rows
        /\ (~quantiles /\ band.block_y # 1) =>
              /\ \A n \in 1 .. Len(reads) : OnBlockGrid(band, reads[n])
              /\ st_pc = "done" =>
                    Len(reads) = CeilDiv(band.cols, band.block_x)
                                   * CeilDiv(band.rows, band.block_y)

\* a band of three rows whose blocks are single rows narrower than the band
\* has been reduced row by row
C14_Witness ==
    /\ st_pc = "done" /\ ~quantiles
    /\ band.block_y = 1 /\ band.block_x < band.cols /\ band.rows = MaxRows
    /\ Len(reads) = band.rows
    /\ reads[band.rows] = Window(0, band.rows - 1, band.cols, 1)

\* pixel (i, j), column i and row j from 0, lies in the window
Covers(win, i, j) ==
    /\ win.x <= i /\ i < win.x + win.w
    /\ win.y <= j /\ j < win.y + win.h

Disjoint(w1, w2) ==
    \/ w1.x + w1.w <= w2.x \/ w2.x + w2.w <= w1.x
    \/ w1.y + w1.h <= w2.y \/ w2.y + w2.h <= w1.y

\* w1 comes before w2 in block-grid scan order
ScanBefore(w1, w2) == w1.y < w2.y \/ (w1.y = w2.y /\ w1.x < w2.x)

(* C15: in the block-wise strategy (no quantiles, block height > 1), for    *)
(* every band size and block shape, multiples of each other or not, every   *)
(* window requested lies inside the band with width and height >= 1, the    *)
(* windows are pairwise disjoint and are requested in block-grid scan       *)
(* order, and those of a completed run cover every pixel exactly once.      *)
C15_BlockWindows ==
    (st_pc \notin {"idle", "start"} /\ ~quantiles /\ band.block_y > 1) =>
        /\ \A n \in 1 .. Len(reads) :
              /\ reads[n].w >= 1 /\ reads[n].h >= 1
              /\ reads[n].x >= 0 /\ reads[n].y >= 0
              /\ reads[n].x + reads[n].w <= band.cols
              /\ reads[n].y + reads[n].h <= band.rows
        /\ \A m, n \in 1 .. Len(reads) : m < n => Disjoint(reads[m], reads[n])
        /\ \A n \in 2 .. Len(reads) : ScanBefore(reads[n - 1], reads[n])
        /\ st_pc = "done" =>
              \A i \in 0 .. band.cols - 1 : \A j \in 0 .. band.rows - 1 :
                  Cardinality({n \in 1 .. Len(reads) : Covers(reads[n], i, j)}) = 1

\* a band whose width and height are no multiples of its block shape has
\* been reduced block by block, the last window clipped in both directions
C15_Witness ==
    /\ st_pc = "done" /\ ~quantiles
    /\ band.block_y > 1 /\ band.block_x > 1
    /\ band.cols % band.block_x # 0 /\ band.rows % band.block_y # 0
    /\ band.cols > band.block_x /\ band.rows > band.block_y
    /\ Len(reads) >= 4
    /\ reads[Len(reads)].w < band.block_x /\ reads[Len(reads)].h < band.block_y

\* the first band of the file that cannot be read, 0 if there is none
FirstBad(f) ==
    LET bad == {b \in 1 .. Len(f.bands) : f.bands[b].corrupt # 0}
    IN  IF bad = {} THEN 0 ELSE CHOOSE b \in bad : \A c \in bad : b <= c

(* C16: compute_all_bands takes the bands in ascending index order          *)
(* 1..band_count and stops at the first band that fails, returning an       *)
(* error and no partial result; in batch_qaqc such a file contributes no    *)
(* row to the output, not even those of its earlier bands, and the other    *)
(* sampled files are still processed.                                       *)
C16_FailFast ==
    /\ \A k \in 1 .. Len(qq_task) :
          qq_task[k].st = "done" =>
              LET f == qq_args.dir[qq_sample[k]]
                  t == qq_task[k]
              IN  /\ ~f.open => (t.fetched = <<>> /\ ~t.df.some)
                  /\ (f.open /\ FirstBad(f) = 0) =>
                        /\ t.fetched = [i \in 1 .. Len(f.bands) |-> i]
                        /\ t.df.some
                        /\ \A i \in 1 .. Len(f.bands) : t.df.val[i].band = i
                  /\ (f.open /\ FirstBad(f) > 0) =>
                        /\ t.fetched = [i \in 1 .. FirstBad(f) |-> i]
                        /\ ~t.df.some
                  /\ (~Succeeds(f) /\ qq_pc = "returned") =>
                        RowsOf(qq_out.rows, qq_sample[k]) = {}
    /\ qq_pc \in {"write", "returned", "panicked"} => AllWorkersDone
    /\ (qq_pc = "returned" /\ qq_ret.ok) =>
          \A k \in 1 .. Len(qq_task) :
              Succeeds(qq_args.dir[qq_sample[k]]) =>
                  RowsOf(qq_out.rows, qq_sample[k]) # {}

\* a table was written after a file of three bands failed at its second band
\* and another file succeeded
C16_Witness ==
    /\ qq_pc = "returned" /\ qq_ret.ok
    /\ \E k \in 1 .. Len(qq_task) :
          /\ Len(qq_args.dir[qq_sample[k]].bands) = 3
          /\ qq_task[k].fetched = <<1, 2>>
          /\ ~qq_task[k].df.some
    /\ \E k \in 1 .. Len(qq_task) : qq_task[k].df.some
    /\ Len(qq_out.rows) >= 1

----------------------------------------------------------------------------
(* Properties of tif_to_cog *)

\* the path existed when tif_to_cog was called
ExistedAtCall(p) == p \in cog_fs /\ (cog_wrote.path = p => cog_wrote.existed)

(* C17: with overwrite = false tif_to_cog never writes to a path that       *)
(* already exists: whatever the extensions of the input and of the optional *)
(* output path, the file it writes is the one whose existence it tested,    *)
(* and a file existing at the final '.tif' location makes it return the     *)
(* 'already exists and overwrite is false' error.                           *)
C17_NoOverwrite ==
    (cog_pc \notin {"idle", "start"} /\ ~cog_args.overwrite) =>
        /\ cog_wrote # NotWritten =>
              /\ ~cog_wrote.existed
              /\ cog_wrote.path \in cog_checked
        /\ ( /\ cog_pc \in {"open", "copy", "returned"}
             /\ ExistedAtCall(cog_args.input_path)
             /\ ExistedAtCall(out_path(cog_args.input_path, cog_args.output_path, FALSE)) ) =>
                cog_pc = "returned" /\ cog_ret.v = "already exists and overwrite is false"

----------------------------------------------------------------------------
(* Properties of the output paths of a batch *)

(* C18: within one batch_convert run no two conversions write to the same   *)
(* output file: distinct matching input files, such as two files of the     *)
(* same stem with different allowed extensions, resolve to distinct final   *)
(* output paths, with an output directory and without one.                  *)
C18_DistinctOutputs ==
    \A i, j \in 1 .. Len(bc_task) :
        ( /\ i # j
          /\ bc_task[i].calls > 0 /\ bc_task[i].cond = "fine"
          /\ bc_task[j].calls > 0 /\ bc_task[j].cond = "fine" ) =>
            bc_task[i].out_path # bc_task[j].out_path

====
